---------------------------- MODULE Spec2Model ----------------------------
(***************************************************************************)
(* Haggle_AI: the proposal-generation / vendor-simulation pipeline of      *)
(* agent.py (NegotiationAgent), the pydantic schemas of schemas.py, the    *)
(* fallback templates of prompts.py, the constructor and the retry nest of *)
(* llm.py (LLMWrapper.__init__, LLMWrapper.generate) and the thread store  *)
(* of db.py (save_negotiation_thread, get_negotiation_thread,              *)
(* get_all_negotiation_threads).                                           *)
(*                                                                         *)
(* Conventions.                                                            *)
(*  - Texts are TLA+ strings; Len and \o are Python's len and +.           *)
(*  - A context is a function from the keys it holds to their values       *)
(*    (a Python dict); prices of a context are whole numbers (500, 400).   *)
(*  - A float rounded to two decimals is held as a whole number of cents.  *)
(*  - A backend reply is the text llm.generate returned, held as what      *)
(*    json.loads makes of it: not JSON at all (kind "text"), a JSON array  *)
(*    (kind "array"), or a JSON object (kind "object", obj the dict).      *)
(*  - Temperatures are held in hundredths (0.65 is 65).                    *)
(*  - JSON text written by json.dumps is held as its sequence of tokens,   *)
(*    and a Python value as a record tagged with its type.                 *)
(***************************************************************************)
EXTENDS Integers, Sequences, FiniteSets, TLC

VARIABLES
    context,      \* the dict passed to the entry point
    context0,     \* the same dict as the caller built it (before the call)
    op,           \* entry point running: "idle", "generate_proposals", "simulate_vendor_response"
    pc,           \* position inside the entry point
    si,           \* index into strategies of the strategy being generated
    proposals,    \* generate_proposals' local dict: strategy -> proposal
    selected,     \* simulate_vendor_response's selected_proposal argument
    first,        \* outcome of the first llm.generate of the current item
    raw,          \* outcome of the latest llm.generate of the current item
    ret,          \* value _generate_single_proposal returned, not yet stored
    calls,        \* every llm.generate call made, in order
    fallbacks,    \* the items whose fallback synthesizer was invoked
    result,       \* what the entry point returned
    outcome,      \* "running", "returned" or "raised"
    \* ---- LLMWrapper.generate (one call of the adapter) ----
    engine,       \* self.engine
    g_pc,         \* "idle", "calling", "returned", "raised"
    attempt,      \* tenacity's attempt number, 1..
    outer_i,      \* loop index of generate's own _with_retry wrapper
    inner_i,      \* loop index of _generate_ollama/_generate_openai's _with_retry wrapper
    provider_calls, \* provider invocations (requests.post / chat.completions.create) so far
    last_err,     \* the exception the latest provider invocation ended with
    g_result,     \* text returned by generate, or the exception raised
    \* ---- LLMWrapper.__init__ and its surroundings ----
    env,          \* the process environment (os.getenv), a dict
    ollama_service, \* what GET {ollama_url}/api/tags does
    openai_installed, \* whether "import openai" succeeds
    ctor,         \* "none", "constructed" or "raised"
    ctor_err,     \* the exception __init__ raised, "none" when it returned
    model,        \* self.model
    ollama_url,   \* self.ollama_url
    \* ---- a direct call of a helper ----
    arg,          \* the strategy argument of a direct _get_fallback_proposal call
    \* ---- db.py: the negotiation_threads table ----
    threads,      \* the set of rows
    next_id,      \* the next AUTOINCREMENT id
    now,          \* CURRENT_TIMESTAMP, in seconds
    saves,        \* every save_negotiation_thread call made, in order
    db_ret,       \* the latest get_negotiation_thread call and what it returned
    db_list       \* what the latest get_all_negotiation_threads call returned

agent_vars == <<context, context0, op, pc, si, proposals, selected, first, raw,
                ret, calls, fallbacks, result, outcome>>
llm_vars == <<engine, g_pc, attempt, outer_i, inner_i, provider_calls, last_err,
              g_result>>
ctor_vars == <<env, ollama_service, openai_installed, ctor, ctor_err, model, ollama_url>>
db_vars == <<threads, next_id, now, saves, db_ret, db_list>>
vars == <<agent_vars, llm_vars, ctor_vars, arg, db_vars>>

---------------------------------------------------------------------------
(* Texts *)

RECURSIVE Rep(_, _)
\* s repeated n times (Python's s * n).
Rep(s, n) ==
    IF n = 0 THEN ""
    ELSE LET h == Rep(s, n \div 2)
         IN  IF n % 2 = 0 THEN h \o h ELSE h \o h \o s

---------------------------------------------------------------------------
(* schemas.py *)

MinProposalLen == 10
MaxProposalLen == 1200
MinReasoningLen == 5
MaxReasoningLen == 600
MinOutcomeLen == 3
MaxOutcomeLen == 300
MinResponseLen == 5
MaxResponseLen == 1200

\* Literal["polite", "firm", "term_swap"]
StrategyLiteral == {"polite", "firm", "term_swap"}

\* A field constrained by Field(..., min_length=lo, max_length=hi): present
\* and within the bounds (every text field of the replies modelled is a str).
StrField(data, key, lo, hi) ==
    /\ key \in DOMAIN data
    /\ Len(data[key]) >= lo
    /\ Len(data[key]) <= hi

\* Mutant: the proposal field's min_length is not enforced.
NegotiationProposalNoFloor(data) ==
    /\ "strategy" \in DOMAIN data
    /\ data["strategy"] \in StrategyLiteral
    /\ StrField(data, "proposal", 0, MaxProposalLen)
    /\ StrField(data, "reasoning", MinReasoningLen, MaxReasoningLen)
    /\ StrField(data, "expected_outcome", MinOutcomeLen, MaxOutcomeLen)

\* Mutant: the proposal field's max_length is not enforced.
NegotiationProposalNoCeiling(data) ==
    /\ "strategy" \in DOMAIN data
    /\ data["strategy"] \in StrategyLiteral
    /\ "proposal" \in DOMAIN data
    /\ Len(data["proposal"]) >= MinProposalLen
    /\ StrField(data, "reasoning", MinReasoningLen, MaxReasoningLen)
    /\ StrField(data, "expected_outcome", MinOutcomeLen, MaxOutcomeLen)

\* NegotiationProposal(**data) does not raise. All four fields are required
\* (none has a default); keys the schema does not name are ignored
\* (pydantic's default).
NegotiationProposal(data) ==
    /\ "strategy" \in DOMAIN data
    /\ data["strategy"] \in StrategyLiteral
    /\ StrField(data, "proposal", MinProposalLen, MaxProposalLen)
    /\ StrField(data, "reasoning", MinReasoningLen, MaxReasoningLen)
    /\ StrField(data, "expected_outcome", MinOutcomeLen, MaxOutcomeLen)

\* accepted_price: Optional[float] with no default: the key is required,
\* its value a number or null.
IsNull(v) == v.t = "null"
IsNum(v) == v.t = "num"

VendorResponse(data) ==
    /\ StrField(data, "response", MinResponseLen, MaxResponseLen)
    /\ "accepted_price" \in DOMAIN data
    /\ (IsNull(data["accepted_price"]) \/ IsNum(data["accepted_price"]))
    /\ StrField(data, "reasoning", MinReasoningLen, MaxReasoningLen)
    /\ "success" \in DOMAIN data
    /\ data["success"] \in BOOLEAN

---------------------------------------------------------------------------
(* The negotiation context *)

ContextKeys == {"vendor_message", "past_price", "target_price", "service_type", "relationship"}

\* The context of tests/manual_validate.py and agent.py's test_agent, with
\* the two prices left open.
FullContext(past, target) ==
    [vendor_message |-> "Your renewal is coming up at $1000/month.",
     past_price |-> past,
     target_price |-> target,
     service_type |-> "SaaS Subscription",
     relationship |-> "1-3 Years"]

Restrict(f, keys) == [k \in keys |-> f[k]]

\* Prices a caller supplies; target above past is allowed (not enforced).
PastPrices == {500, 1000}
TargetPrices == {400, 800}

\* Contexts a caller can pass: all five keys, or one of them absent.
Contexts ==
    {Restrict(FullContext(p, t), ks) :
        p \in PastPrices, t \in TargetPrices,
        ks \in {ContextKeys} \cup {ContextKeys \ {k} : k \in ContextKeys}}

Complete(ctx) == ContextKeys \subseteq DOMAIN ctx

\* dict.get(key, default)
Get(d, key, default) == IF key \in DOMAIN d THEN d[key] ELSE default

---------------------------------------------------------------------------
(* prompts.py and the prompt building of agent.py *)

\* _format_context: the five values in their markup, in this order. Reads
\* context[k] for each of the five keys (KeyError when one is absent).
FormatContextKeys == ContextKeys

\* Mutant: the rendering carries the number of backend calls made so far.
_format_context_numbered(ctx) ==
    "\n<vendor_message>" \o ctx["vendor_message"] \o "</vendor_message>"
    \o "\n<current_price>$" \o ToString(ctx["past_price"]) \o "/month</current_price>"
    \o "\n<target_price>$" \o ToString(ctx["target_price"]) \o "/month</target_price>"
    \o "\n<service_type>" \o ctx["service_type"] \o "</service_type>"
    \o "\n<relationship_length>" \o ctx["relationship"] \o "</relationship_length>\n"
    \o "<attempt>" \o ToString(Len(calls)) \o "</attempt>\n"

_format_context(ctx) ==
    "\n<vendor_message>" \o ctx["vendor_message"] \o "</vendor_message>"
    \o "\n<current_price>$" \o ToString(ctx["past_price"]) \o "/month</current_price>"
    \o "\n<target_price>$" \o ToString(ctx["target_price"]) \o "/month</target_price>"
    \o "\n<service_type>" \o ctx["service_type"] \o "</service_type>"
    \o "\n<relationship_length>" \o ctx["relationship"] \o "</relationship_length>\n"

\* PROPOSAL_PROMPT.format(context=, strategy=, past_price=, target_price=):
\* the template's fixed text (abridged to its markup) around the two fields
\* it names; past_price and target_price are looked up in the context but
\* the template has no such field.
ProposalPromptKeys == {"past_price", "target_price"}
PROPOSAL_PROMPT(context_str, strategy) ==
    "\nAnalyze this negotiation scenario and generate a proposal following the specified strategy.\n\n<context>\n"
    \o context_str
    \o "\n</context>\n\n<strategy>\n"
    \o strategy
    \o "\n</strategy>\n\n<instructions>...</example>\n"

ProposalStrictSuffix ==
    "\n\nIMPORTANT: Return ONLY valid JSON with keys: proposal, reasoning, expected_outcome. No other text."

\* VENDOR_SIMULATION_PROMPT.format(...): reads five context keys and
\* selected_proposal["content"].
VendorPromptKeys == ContextKeys
VENDOR_SIMULATION_PROMPT(ctx, proposal) ==
    "\nYou are simulating a realistic vendor response to a negotiation attempt.\n\n<context>\n  <vendor_message>"
    \o ctx["vendor_message"]
    \o "</vendor_message>\n  <customer_proposal>" \o proposal
    \o "</customer_proposal>\n  <original_price>$" \o ToString(ctx["past_price"])
    \o "/month</original_price>\n  <target_price>$" \o ToString(ctx["target_price"])
    \o "/month</target_price>\n  <service_type>" \o ctx["service_type"]
    \o "</service_type>\n  <relationship_length>" \o ctx["relationship"]
    \o "</relationship_length>\n</context>\n\n<instructions>...</example>\n"

VendorStrictSuffix ==
    "\n\nIMPORTANT: Return ONLY valid JSON with keys: response, accepted_price, reasoning, success. No other text."

FALLBACK_TEMPLATES ==
    [polite |->
        [opening |-> "Thank you for the renewal information. We've really valued our partnership",
         transition |-> "Given our current budget planning and the competitive landscape",
         ask |-> "I was wondering if there might be some flexibility in the pricing",
         closing |-> "I'd love to discuss options that work for both of us"],
     firm |->
        [opening |-> "I've received your renewal quote",
         transition |-> "Based on our research of current market rates and competitive offerings",
         ask |-> "We have budget approval for [target_price] for this service",
         closing |-> "Please let me know if you can match this rate by [deadline]"],
     term_swap |->
        [opening |-> "Thanks for the renewal information",
         transition |-> "Instead of the standard terms, would you consider",
         ask |-> "We could discuss longer commitment, case studies, or other value-adds",
         closing |-> "What creative options might work for both of us?"]]

---------------------------------------------------------------------------
(* agent.py: parsing and the fallback synthesizer *)

\* What llm.generate can do for the orchestrator: raise, or return a text.
Raised == [kind |-> "raised"]
NoCall == [kind |-> "none"]
Text == [kind |-> "text"]
Array == [kind |-> "array"]
Object(o) == [kind |-> "object", obj |-> o]

\* _parse_proposal(raw) returns (does not raise): json.loads succeeds, the
\* value is a mapping (** of a list raises TypeError) and the schema accepts.
ParsesProposal(r) == r.kind = "object" /\ NegotiationProposal(r.obj)

\* The dict _parse_proposal returns.
_parse_proposal(r) ==
    [content |-> r.obj["proposal"],
     reasoning |-> r.obj["reasoning"],
     expected_outcome |-> r.obj["expected_outcome"]]

ParsesVendor(r) == r.kind = "object" /\ VendorResponse(r.obj)

_parse_vendor_response(r) ==
    [content |-> r.obj["response"],
     accepted_price |-> r.obj["accepted_price"],
     reasoning |-> r.obj["reasoning"],
     success |-> r.obj["success"]]

\* Mutant: context.get('target_price') with no default, formatted as None.
TargetPriceTextNone(ctx) ==
    IF "target_price" \in DOMAIN ctx THEN ToString(ctx["target_price"])
    ELSE "None"

\* str() of a target price: the number, or the default phrase.
TargetPriceText(ctx) ==
    IF "target_price" \in DOMAIN ctx THEN ToString(ctx["target_price"])
    ELSE "a more competitive rate"

_get_fallback_proposal_polite(strategy, ctx) ==
    LET templates == FALLBACK_TEMPLATES["polite"]
    IN  [content |->
            templates["opening"] \o ". " \o templates["transition"] \o ", "
            \o templates["ask"] \o " around $" \o TargetPriceText(ctx)
            \o "/month. " \o templates["closing"] \o ".",
         reasoning |-> "Using " \o strategy \o " approach with fallback template due to LLM error.",
         expected_outcome |-> "Vendor is likely to be receptive to a discussion."]

\* Mutant: an unknown strategy takes the "firm" template.
TemplatesForDefaultFirm(strategy) ==
    IF strategy \in DOMAIN FALLBACK_TEMPLATES
    THEN FALLBACK_TEMPLATES[strategy]
    ELSE FALLBACK_TEMPLATES["firm"]

\* FALLBACK_TEMPLATES.get(strategy, FALLBACK_TEMPLATES['polite'])
TemplatesFor(strategy) ==
    IF strategy \in DOMAIN FALLBACK_TEMPLATES
    THEN FALLBACK_TEMPLATES[strategy]
    ELSE FALLBACK_TEMPLATES["polite"]

_get_fallback_proposal(strategy, ctx) ==
    LET templates == TemplatesFor(strategy)
    IN  [content |->
            templates["opening"] \o ". " \o templates["transition"] \o ", "
            \o templates["ask"] \o " around $" \o TargetPriceText(ctx)
            \o "/month. " \o templates["closing"] \o ".",
         reasoning |-> "Using " \o strategy \o " approach with fallback template due to LLM error.",
         expected_outcome |-> "Vendor is likely to be receptive to a discussion."]

---------------------------------------------------------------------------
(* Replies the backend may give to a proposal prompt *)

\* A reply as the prompt's own example shows it, at the schema's floors.
P10 == Rep("p", MinProposalLen)
R5 == Rep("r", MinReasoningLen)
E3 == Rep("e", MinOutcomeLen)

\* The three keys the prompt asks for.
ThreeKeys(p, r, e) == [proposal |-> p, reasoning |-> r, expected_outcome |-> e]
\* The same with a strategy key added.
FourKeys(s, p, r, e) ==
    [strategy |-> s, proposal |-> p, reasoning |-> r, expected_outcome |-> e]

ProposalObjects ==
    { ThreeKeys(P10, R5, E3),
      ThreeKeys(Rep("p", MinProposalLen - 1), R5, E3),
      FourKeys("polite", P10, R5, E3),
      FourKeys("firm", Rep("p", MaxProposalLen), Rep("r", MaxReasoningLen), Rep("e", MaxOutcomeLen)),
      FourKeys("polite", Rep("p", MinProposalLen - 1), R5, E3),
      FourKeys("polite", Rep("p", MaxProposalLen + 1), R5, E3),
      FourKeys("polite", P10, Rep("r", MinReasoningLen - 1), E3),
      FourKeys("polite", P10, R5, Rep("e", MaxOutcomeLen + 1)),
      FourKeys("aggressive", P10, R5, E3),
      [strategy |-> "polite", proposal |-> P10, reasoning |-> R5] }

ProposalReplies == {Text, Array} \cup {Object(o) : o \in ProposalObjects}

\* A reply that follows the prompt's contract: a JSON object with exactly the
\* keys proposal, reasoning, expected_outcome, each within its bounds.
ContractReply(r) ==
    /\ r.kind = "object"
    /\ DOMAIN r.obj = {"proposal", "reasoning", "expected_outcome"}
    /\ StrField(r.obj, "proposal", MinProposalLen, MaxProposalLen)
    /\ StrField(r.obj, "reasoning", MinReasoningLen, MaxReasoningLen)
    /\ StrField(r.obj, "expected_outcome", MinOutcomeLen, MaxOutcomeLen)

\* Text that is not JSON, or JSON that is not an object.
Malformed(r) == r.kind \in {"text", "array"}

---------------------------------------------------------------------------
(* Replies the backend may give to a vendor-simulation prompt *)

Null == [t |-> "null"]
\* A JSON number, read as a float: held in cents.
Num(cents) == [t |-> "num", cents |-> cents]

VendorReplyText == "Thanks for reaching out. We can offer a discounted rate of $900/month."
VendorReplyReasoning == "Offered a 10% discount to retain a valued customer."

VendorObjects ==
    { [response |-> VendorReplyText, accepted_price |-> Num(90000),
       reasoning |-> VendorReplyReasoning, success |-> TRUE],
      [response |-> VendorReplyText, accepted_price |-> Null,
       reasoning |-> VendorReplyReasoning, success |-> FALSE],
      [response |-> VendorReplyText, accepted_price |-> Num(200000),
       reasoning |-> VendorReplyReasoning, success |-> TRUE],
      [response |-> Rep("v", MinResponseLen - 1), accepted_price |-> Num(90000),
       reasoning |-> VendorReplyReasoning, success |-> TRUE],
      [response |-> VendorReplyText, accepted_price |-> Num(90000),
       reasoning |-> Rep("r", MaxReasoningLen + 1), success |-> TRUE],
      [response |-> VendorReplyText,
       reasoning |-> VendorReplyReasoning, success |-> TRUE],
      [content |-> VendorReplyText, accepted_price |-> Num(90000),
       reasoning |-> VendorReplyReasoning, success |-> TRUE] }

VendorReplies == {Text, Array} \cup {Object(o) : o \in VendorObjects}

---------------------------------------------------------------------------
(* agent.py: the fallback vendor reply *)

\* round(x, 2) of x = num/den dollars * 100, to the nearest cent, ties to even.
RoundHalfEven(num, den) ==
    LET q == num \div den
        r == num % den
    IN  IF 2 * r < den THEN q
        ELSE IF 2 * r > den THEN q + 1
        ELSE IF q % 2 = 0 THEN q ELSE q + 1

\* str() of a non-negative float of at most two decimals: 450.0, 437.5, 437.25.
FloatStr(cents) ==
    LET d == cents \div 100
        c == cents % 100
    IN  ToString(d) \o "." \o
        (IF c % 10 = 0 THEN ToString(c \div 10)
         ELSE IF c < 10 THEN "0" \o ToString(c) ELSE ToString(c))

\* Values random.uniform(0.25, 0.75) may return, in thousandths.
Fractions == {250, 333, 500, 750}

\* Mutant: the concession is measured from the target price.
AcceptedCentsFromTarget(original_price, target_price, f) ==
    RoundHalfEven(target_price * 1000 + (original_price - target_price) * f, 10)

\* accepted_price in cents for a concession fraction f (thousandths):
\* round(original_price - (original_price - target_price) * f, 2).
AcceptedCents(original_price, target_price, f) ==
    RoundHalfEven(original_price * 1000 - (original_price - target_price) * f, 10)

\* Mutant: a reply at the original price counts as a success.
FallbackSuccessAtMost(accepted, original_price) == accepted <= original_price * 100

\* "success": accepted_price < original_price (accepted in cents).
FallbackSuccess(accepted, original_price) == accepted < original_price * 100

_get_fallback_vendor_response(ctx, f) ==
    LET original_price == Get(ctx, "past_price", 1000)
        target_price == Get(ctx, "target_price", 800)
        accepted == AcceptedCents(original_price, target_price, f)
    IN  [content |->
            "Thank you for your proposal. After reviewing our options, "
            \o "we can offer a revised rate of $" \o FloatStr(accepted) \o "/month. "
            \o "This reflects our commitment to our partnership while maintaining "
            \o "our service quality standards.",
         accepted_price |-> Num(accepted),
         reasoning |-> "Fallback simulation: partial concession based on typical vendor behavior.",
         success |-> FallbackSuccess(accepted, original_price)]

---------------------------------------------------------------------------
(* llm.py: LLMWrapper.__init__ *)

\* The engines a constructed LLMWrapper can hold.
Engines == {"openai", "ollama"}

\* An attribute __init__ did not assign.
Unset == "<unset>"

\* str.lower() on the values ENGINE takes here.
Lower(s) ==
    CASE s = "OpenAI" -> "openai"
      [] s = "OLLAMA" -> "ollama"
      [] OTHER -> s

\* Values of ENGINE an operator may have set.
EngineValues == {"openai", "OpenAI", "ollama", "gemini", ""}

EnvKeys == {"ENGINE", "OPENAI_MODEL", "OLLAMA_URL", "OLLAMA_MODEL"}

FullEnv(e) ==
    [ENGINE |-> e,
     OPENAI_MODEL |-> "gpt-4o",
     OLLAMA_URL |-> "http://ollama:11434",
     OLLAMA_MODEL |-> "mistral:7b"]

\* Environments: each variable set or absent.
Envs == {Restrict(FullEnv(e), ks) : e \in EngineValues, ks \in SUBSET EnvKeys}

\* What GET /api/tags can do: no connection (a RequestException), an answer
\* with a status other than 200, or 200 with the names of the models held.
Unreachable == [kind |-> "unreachable"]
BadStatus == [kind |-> "status"]
Tags(names) == [kind |-> "tags", models |-> names]
OllamaServices ==
    {Unreachable, BadStatus, Tags({}), Tags({"llama3.1:8b"}),
     Tags({"llama3.1:8b", "mistral:7b"})}

\* Mutant: without ENGINE the hosted provider is taken.
EngineSettingDefaultOpenai(e) == Lower(Get(e, "ENGINE", "openai"))

\* os.getenv("ENGINE", "ollama").lower()
EngineSetting(e) == Lower(Get(e, "ENGINE", "ollama"))

\* Mutant: only the connection is tested, not the list of models.
_test_ollama_connection_only(service, m) ==
    IF service.kind = "unreachable" THEN "Exception"
    ELSE IF service.kind = "status" THEN "Exception"
    ELSE "none"

\* _test_ollama_connection: the exception it raises, "none" when it returns.
_test_ollama_connection(service, m) ==
    IF service.kind = "unreachable" THEN "Exception"
    ELSE IF service.kind = "status" THEN "Exception"
    ELSE IF m \notin service.models THEN "Exception"
    ELSE "none"

\* LLMWrapper(): the whole constructor. The openai client is built without
\* any request; the ollama branch sets url and model and then tests the
\* connection; any other engine value raises ValueError.
LLMWrapper__init__ ==
    /\ ctor = "none"
    /\ engine' = EngineSetting(env)
    /\ IF engine' = "openai"
       THEN IF openai_installed
            THEN /\ model' = Get(env, "OPENAI_MODEL", "gpt-4o-mini")
                 /\ ctor' = "constructed"
                 /\ ctor_err' = "none"
                 /\ UNCHANGED ollama_url
            ELSE /\ ctor' = "raised"
                 /\ ctor_err' = "Exception"
                 /\ UNCHANGED <<model, ollama_url>>
       ELSE IF engine' = "ollama"
       THEN /\ ollama_url' = Get(env, "OLLAMA_URL", "http://localhost:11434")
            /\ model' = Get(env, "OLLAMA_MODEL", "llama3.1:8b")
            /\ ctor_err' = _test_ollama_connection(ollama_service, model')
            /\ ctor' = IF ctor_err' = "none" THEN "constructed" ELSE "raised"
       ELSE /\ ctor' = "raised"
            /\ ctor_err' = "ValueError"
            /\ UNCHANGED <<model, ollama_url>>
    /\ UNCHANGED <<env, ollama_service, openai_installed>>
    /\ UNCHANGED <<g_pc, attempt, outer_i, inner_i, provider_calls, last_err, g_result>>
    /\ UNCHANGED <<agent_vars, arg, db_vars>>

\* An adapter constructed for engine e in an environment that names it and
\* nothing else, with the default model present.
Constructed(e) ==
    /\ env = [ENGINE |-> e]
    /\ ollama_service = Tags({"llama3.1:8b"})
    /\ openai_installed = TRUE
    /\ ctor = "constructed"
    /\ ctor_err = "none"
    /\ engine = e
    /\ model = (IF e = "openai" THEN "gpt-4o-mini" ELSE "llama3.1:8b")
    /\ ollama_url = (IF e = "openai" THEN Unset ELSE "http://localhost:11434")

---------------------------------------------------------------------------
(* db.py: the negotiation_threads table *)

\* Python values a context is made of: str, int, list and dict (a dict
\* holds its keys in insertion order).
PyStr(s) == [t |-> "str", v |-> s]
PyInt(n) == [t |-> "int", v |-> n]
PyList(items) == [t |-> "list", v |-> items]
PyDict(keys, values) == [t |-> "dict", k |-> keys, v |-> values]

\* JSON text, held as its sequence of tokens.
TokString(s) == [tok |-> "string", v |-> s]
TokNumber(n) == [tok |-> "number", v |-> n]
Punct(c) == [tok |-> c]

RECURSIVE json_dumps(_)
RECURSIVE DumpItems(_, _)
RECURSIVE DumpMembers(_, _, _)
\* The elements of a list from the i-th on, separated by commas.
DumpItems(items, i) ==
    IF i > Len(items) THEN <<>>
    ELSE (IF i > 1 THEN <<Punct(",")>> ELSE <<>>)
         \o json_dumps(items[i]) \o DumpItems(items, i + 1)

\* The key: value pairs of a dict from the i-th on, separated by commas.
DumpMembers(keys, values, i) ==
    IF i > Len(keys) THEN <<>>
    ELSE (IF i > 1 THEN <<Punct(",")>> ELSE <<>>)
         \o <<TokString(keys[i]), Punct(":")>> \o json_dumps(values[i])
         \o DumpMembers(keys, values, i + 1)

\* json.dumps(x)
json_dumps(x) ==
    IF x.t = "str" THEN <<TokString(x.v)>>
    ELSE IF x.t = "int" THEN <<TokNumber(x.v)>>
    ELSE IF x.t = "list" THEN <<Punct("[")>> \o DumpItems(x.v, 1) \o <<Punct("]")>>
    ELSE <<Punct("{")>> \o DumpMembers(x.k, x.v, 1) \o <<Punct("}")>>

RECURSIVE ParseValue(_)
RECURSIVE ParseItems(_, _)
RECURSIVE ParseMembers(_, _, _)
\* The elements of an array after its "[" or after a comma: the list and
\* the text left after the closing "]".
ParseItems(toks, acc) ==
    IF toks[1].tok = "]" THEN [val |-> PyList(acc), rest |-> Tail(toks)]
    ELSE LET start == IF toks[1].tok = "," THEN Tail(toks) ELSE toks
             item == ParseValue(start)
         IN  ParseItems(item.rest, Append(acc, item.val))

\* The members of an object, likewise.
ParseMembers(toks, keys, values) ==
    IF toks[1].tok = "}" THEN [val |-> PyDict(keys, values), rest |-> Tail(toks)]
    ELSE LET start == IF toks[1].tok = "," THEN Tail(toks) ELSE toks
             member == ParseValue(Tail(Tail(start)))
         IN  ParseMembers(member.rest, Append(keys, start[1].v),
                          Append(values, member.val))

\* One JSON value at the head of a text: the Python value and the text left.
ParseValue(toks) ==
    IF toks[1].tok = "string" THEN [val |-> PyStr(toks[1].v), rest |-> Tail(toks)]
    ELSE IF toks[1].tok = "number" THEN [val |-> PyInt(toks[1].v), rest |-> Tail(toks)]
    ELSE IF toks[1].tok = "[" THEN ParseItems(Tail(toks), <<>>)
    ELSE ParseMembers(Tail(toks), <<>>, <<>>)

\* json.loads(text), for a text json.dumps wrote.
json_loads(text) == ParseValue(text).val

\* The dict app.py saves for a thread.
Message(id, sender, body) ==
    PyDict(<<"id", "sender", "body">>, <<PyStr(id), PyStr(sender), PyStr(body)>>)

AppContext(product, initial_offer, history) ==
    PyDict(<<"product", "initial_offer", "recipient_email", "your_name", "strategy",
             "history">>,
           <<PyStr(product), PyInt(initial_offer), PyStr("sales@vendor.example"),
             PyStr("Dana"), PyStr("Balanced"), PyList(history)>>)

\* Contexts saved: with a history of two messages, and with an empty one.
ThreadContexts ==
    {AppContext("Hosting", 100,
                <<Message("m1", "me", "Hi"),
                  Message("m2", "sales@vendor.example", "We can do 120")>>),
     AppContext("CRM seats", 250, <<>>)}

\* Gmail thread ids.
ThreadIds == {"18c2a", "18c2b"}

\* save_negotiation_thread calls made in one run.
MaxSaves == 3

\* Python's None.
None == [kind |-> "None"]
Some(x) == [kind |-> "value", value |-> x]

\* The table after init_database on a new file.
DbIdle ==
    /\ threads = {}
    /\ next_id = 1
    /\ now = 0
    /\ saves = <<>>
    /\ db_ret = <<>>
    /\ db_list = None

\* Mutant: INSERT OR IGNORE, a row of the same thread_id is kept.
InsertOrIgnore(rows, row) ==
    IF \E r \in rows : r.thread_id = row.thread_id THEN rows
    ELSE rows \cup {row}

\* Mutant: a plain INSERT into a table whose thread_id is not UNIQUE.
InsertPlain(rows, row) == rows \cup {row}

\* INSERT OR REPLACE with thread_id UNIQUE: a row of the same thread_id is
\* deleted and the new row inserted.
InsertOrReplace(rows, row) ==
    {r \in rows : r.thread_id # row.thread_id} \cup {row}

\* save_negotiation_thread(thread_id, context), dt seconds after the
\* previous statement. id is AUTOINCREMENT, status and created_at take
\* their column defaults.
save_negotiation_thread(thread_id, ctx, dt) ==
    /\ Len(saves) < MaxSaves
    /\ now' = now + dt
    /\ threads' = InsertOrReplace(threads,
                      [id |-> next_id,
                       thread_id |-> thread_id,
                       context |-> json_dumps(ctx),
                       status |-> "active",
                       created_at |-> now',
                       updated_at |-> now'])
    /\ next_id' = next_id + 1
    /\ saves' = Append(saves, [thread_id |-> thread_id, context |-> ctx])
    /\ UNCHANGED <<db_ret, db_list>>
    /\ UNCHANGED <<agent_vars, llm_vars, ctor_vars, arg>>

\* dict(row) with result['context'] = json.loads(result['context'])
Decoded(row) == [row EXCEPT !.context = json_loads(row.context)]

\* get_negotiation_thread(thread_id): fetchone() of the rows with that
\* thread_id, as a dict with its context decoded, or None.
get_negotiation_thread(thread_id) ==
    /\ LET found == {r \in threads : r.thread_id = thread_id}
       IN  IF found = {}
           THEN db_ret' = [thread_id |-> thread_id, value |-> None]
           ELSE \E row \in found :
                   db_ret' = [thread_id |-> thread_id, value |-> Some(Decoded(row))]
    /\ UNCHANGED <<threads, next_id, now, saves, db_list>>
    /\ UNCHANGED <<agent_vars, llm_vars, ctor_vars, arg>>

\* The orders SELECT ... ORDER BY updated_at DESC can return a set of rows
\* in: each row once, later updated_at first, rows of the same second in
\* any order.
Listings(rows) ==
    {seq \in [1..Cardinality(rows) -> rows] :
        \A i \in 1..Len(seq) : \A j \in 1..Len(seq) :
            i < j => /\ seq[i] # seq[j]
                     /\ seq[i].updated_at >= seq[j].updated_at}

\* get_all_negotiation_threads(): the rows WHERE status = 'active', each as
\* a dict with its context decoded.
get_all_negotiation_threads ==
    /\ \E seq \in Listings({r \in threads : r.status = "active"}) :
          db_list' = Some([i \in 1..Len(seq) |-> Decoded(seq[i])])
    /\ UNCHANGED <<threads, next_id, now, saves, db_ret>>
    /\ UNCHANGED <<agent_vars, llm_vars, ctor_vars, arg>>

DbNext ==
    \/ \E id \in ThreadIds, ctx \in ThreadContexts, dt \in {0, 1} :
          save_negotiation_thread(id, ctx, dt)
    \/ \E id \in ThreadIds : get_negotiation_thread(id)
    \/ get_all_negotiation_threads

---------------------------------------------------------------------------

(* agent.py: NegotiationAgent.generate_proposals *)

TempProposalFirst == 65
TempProposalRetry == 60
TempVendorFirst == 50
TempVendorRetry == 45

VendorSystemPrompt ==
    "You are simulating a vendor's response to a negotiation. Be realistic and consider business factors."

\* One self.llm.generate(system_prompt=, user_prompt=, temperature=) call.
Call(item, system_prompt, user_prompt, temperature) ==
    [item |-> item, system_prompt |-> system_prompt,
     user_prompt |-> user_prompt, temperature |-> temperature]

\* What llm.generate may do on a prompt: raise, or return one of the texts.
ProposalOutcomes == {Raised} \cup ProposalReplies
VendorOutcomes == {Raised} \cup VendorReplies

\* Mutant: the loop visits "firm" twice and never "term_swap".
strategiesFirmTwice == <<"polite", "firm", "firm">>

\* Mutant: the loop runs through the strategies from the last to the first.
strategiesReversed == <<"term_swap", "firm", "polite">>

\* strategies = ["polite", "firm", "term_swap"]
strategies == <<"polite", "firm", "term_swap">>

strategy == strategies[si]

\* The exception the try body of a proposal attempt ends with for a backend
\* outcome, "none" when it returns: llm.generate raised, json.loads raised,
\* ** of a non-mapping raised, or the schema raised.
ProposalError(out) ==
    IF out = Raised THEN "Exception"
    ELSE IF out.kind = "text" THEN "JSONDecodeError"
    ELSE IF out.kind = "array" THEN "TypeError"
    ELSE IF ~NegotiationProposal(out.obj) THEN "ValidationError"
    ELSE "none"

\* Mutant: a reply reporting success at a price above the current one is
\* rejected.
VendorErrorCrossChecked(out) ==
    IF out = Raised THEN "Exception"
    ELSE IF out.kind = "text" THEN "JSONDecodeError"
    ELSE IF out.kind = "array" THEN "TypeError"
    ELSE IF ~VendorResponse(out.obj) THEN "ValidationError"
    ELSE IF /\ out.obj["success"]
            /\ IsNum(out.obj["accepted_price"])
            /\ out.obj["accepted_price"].cents > context["past_price"] * 100
         THEN "ValidationError"
    ELSE "none"

\* The same for the try body of a vendor attempt.
VendorError(out) ==
    IF out = Raised THEN "Exception"
    ELSE IF out.kind = "text" THEN "JSONDecodeError"
    ELSE IF out.kind = "array" THEN "TypeError"
    ELSE IF ~VendorResponse(out.obj) THEN "ValidationError"
    ELSE "none"

\* Mutant: only parse and schema errors are caught.
ExceptValidationOnly(err) == err \in {"JSONDecodeError", "ValidationError"}

\* except Exception: every exception a try body can end with is caught.
ExceptException(err) == err \in {"Exception", "JSONDecodeError", "TypeError", "ValidationError"}

\* An uncaught exception leaves the entry point.
Escape ==
    /\ outcome' = "raised"
    /\ pc' = "done"

\* LLMWrapper before any generate call.
LLMIdle ==
    /\ g_pc = "idle"
    /\ attempt = 0
    /\ outer_i = 0
    /\ inner_i = 0
    /\ provider_calls = 0
    /\ last_err = "none"
    /\ g_result = NoCall

\* NegotiationAgent before any entry point is called.
AgentIdle ==
    /\ context0 = context
    /\ op = "idle"
    /\ pc = "idle"
    /\ si = 0
    /\ proposals = <<>>
    /\ selected = <<>>
    /\ first = NoCall
    /\ raw = NoCall
    /\ ret = <<>>
    /\ calls = <<>>
    /\ fallbacks = {}
    /\ result = <<>>
    /\ outcome = "idle"
    /\ arg = ""

\* A caller holds a context and an agent whose adapter was constructed.
Init ==
    /\ context \in Contexts
    /\ AgentIdle
    /\ Constructed("ollama")
    /\ LLMIdle
    /\ DbIdle

\* Lines 29-31: context_str is formatted outside any try; then the loop starts.
GenerateProposals ==
    /\ op = "idle"
    /\ op' = "generate_proposals"
    /\ IF FormatContextKeys \subseteq DOMAIN context
       THEN /\ proposals' = <<>>
            /\ si' = 1
            /\ pc' = "first"
            /\ outcome' = "running"
       ELSE /\ Escape
            /\ UNCHANGED <<proposals, si>>
    /\ UNCHANGED <<context, context0, selected, first, raw, ret, calls, fallbacks, result>>
    /\ UNCHANGED <<llm_vars, ctor_vars, arg, db_vars>>

\* Mutant: an exception of the backend on the first attempt skips the retry.
AfterFirstFailureSkipsRetry(err) == IF err = "Exception" THEN "fallback" ELSE "retry"

\* Mutant: once a strategy has fallen back, later strategies skip the retry.
AfterFirstFailureOnceFailed(err) == IF fallbacks # {} THEN "fallback" ELSE "retry"

\* Lines 66-71: the first except Exception leads to the second try,
\* whatever the exception was.
AfterFirstFailure(err) == "retry"

\* Lines 50-69: the prompt is formatted (outside the try), the backend is
\* called at 0.65 and its text parsed; a caught exception leads to the retry.
FirstAttempt(out) ==
    /\ op = "generate_proposals"
    /\ pc = "first"
    /\ IF ~(ProposalPromptKeys \subseteq DOMAIN context)
       THEN /\ Escape
            /\ UNCHANGED <<first, raw, ret, calls>>
       ELSE /\ calls' = Append(calls,
                   Call(strategy, "SYSTEM_PROMPT",
                        PROPOSAL_PROMPT(_format_context(context), strategy),
                        TempProposalFirst))
            /\ first' = out
            /\ raw' = out
            /\ LET err == ProposalError(out)
               IN  IF err = "none"
                   THEN ret' = _parse_proposal(out) /\ pc' = "store" /\ UNCHANGED outcome
                   ELSE IF ExceptException(err)
                   THEN ret' = ret /\ pc' = AfterFirstFailure(err) /\ UNCHANGED outcome
                   ELSE ret' = ret /\ Escape
    /\ UNCHANGED <<context, context0, op, si, proposals, selected, fallbacks, result>>
    /\ UNCHANGED <<llm_vars, ctor_vars, arg, db_vars>>

\* Mutant: the retry sends the standard prompt again.
ProposalStrictPromptUnchanged(prompt) == prompt

\* strict_prompt = prompt + "\n\nIMPORTANT: ..."
ProposalStrictPrompt(prompt) == prompt \o ProposalStrictSuffix

\* Mutant: a failed retry is retried again.
AfterSecondFailureRetriesAgain(err) == "retry"

\* Lines 84-86: the second except Exception returns the fallback.
AfterSecondFailure(err) == "fallback"

\* Lines 71-85: the strict prompt at 0.6; a caught exception leads to the fallback.
SecondAttempt(out) ==
    /\ op = "generate_proposals"
    /\ pc = "retry"
    /\ calls' = Append(calls,
           Call(strategy, "SYSTEM_PROMPT",
                ProposalStrictPrompt(PROPOSAL_PROMPT(_format_context(context), strategy)),
                TempProposalRetry))
    /\ raw' = out
    /\ LET err == ProposalError(out)
       IN  IF err = "none"
           THEN ret' = _parse_proposal(out) /\ pc' = "store" /\ UNCHANGED outcome
           ELSE IF ExceptException(err)
           THEN ret' = ret /\ pc' = AfterSecondFailure(err) /\ UNCHANGED outcome
           ELSE ret' = ret /\ Escape
    /\ UNCHANGED <<context, context0, op, si, proposals, selected, first, fallbacks, result>>
    /\ UNCHANGED <<llm_vars, ctor_vars, arg, db_vars>>

\* Mutant: the fallback records the strategy in the caller's context.
FallbackStoringStrategy ==
    /\ op = "generate_proposals"
    /\ pc = "fallback"
    /\ context' = ("strategy" :> strategy) @@ context
    /\ ret' = _get_fallback_proposal(strategy, context)
    /\ fallbacks' = fallbacks \cup {strategy}
    /\ pc' = "store"
    /\ UNCHANGED <<context0, op, si, proposals, selected, first, raw, calls,
                   result, outcome>>
    /\ UNCHANGED <<llm_vars, ctor_vars, arg, db_vars>>

\* Line 86: the second except returns the fallback proposal.
Fallback ==
    /\ op = "generate_proposals"
    /\ pc = "fallback"
    /\ ret' = _get_fallback_proposal(strategy, context)
    /\ fallbacks' = fallbacks \cup {strategy}
    /\ pc' = "store"
    /\ UNCHANGED <<context, context0, op, si, proposals, selected, first, raw, calls,
                   result, outcome>>
    /\ UNCHANGED <<llm_vars, ctor_vars, arg, db_vars>>

\* Line 34: proposals[strategy] = <returned value>, and the loop goes on.
StoreProposal ==
    /\ op = "generate_proposals"
    /\ pc = "store"
    /\ proposals' = (strategy :> ret) @@ proposals
    /\ IF si < Len(strategies)
       THEN si' = si + 1 /\ pc' = "first"
       ELSE si' = si /\ pc' = "return"
    /\ first' = NoCall
    /\ raw' = NoCall
    /\ ret' = <<>>
    /\ UNCHANGED <<context, context0, op, selected, calls, fallbacks, result, outcome>>
    /\ UNCHANGED <<llm_vars, ctor_vars, arg, db_vars>>

\* Line 40: return proposals.
ReturnProposals ==
    /\ op = "generate_proposals"
    /\ pc = "return"
    /\ result' = proposals
    /\ outcome' = "returned"
    /\ pc' = "done"
    /\ UNCHANGED <<context, context0, op, si, proposals, selected, first, raw, ret,
                   calls, fallbacks>>
    /\ UNCHANGED <<llm_vars, ctor_vars, arg, db_vars>>

---------------------------------------------------------------------------
(* agent.py: NegotiationAgent.simulate_vendor_response *)

\* Proposals a caller selects: entries generate_proposals can have returned.
SelectedProposals(ctx) ==
    {_get_fallback_proposal("polite", ctx),
     [content |-> P10, reasoning |-> R5, expected_outcome |-> E3]}

\* Lines 119-126: the prompt is formatted outside any try.
SimulateVendorResponse(sel) ==
    /\ op = "idle"
    /\ op' = "simulate_vendor_response"
    /\ selected' = sel
    /\ IF VendorPromptKeys \subseteq DOMAIN context /\ "content" \in DOMAIN sel
       THEN pc' = "v_first" /\ outcome' = "running"
       ELSE Escape
    /\ UNCHANGED <<context, context0, si, proposals, first, raw, ret, calls, fallbacks, result>>
    /\ UNCHANGED <<llm_vars, ctor_vars, arg, db_vars>>

\* Lines 128-140: first call at 0.5.
VendorFirstAttempt(out) ==
    /\ op = "simulate_vendor_response"
    /\ pc = "v_first"
    /\ calls' = Append(calls,
           Call("vendor", VendorSystemPrompt,
                VENDOR_SIMULATION_PROMPT(context, selected["content"]),
                TempVendorFirst))
    /\ first' = out
    /\ raw' = out
    /\ LET err == VendorError(out)
       IN  IF err = "none"
           THEN /\ result' = _parse_vendor_response(out)
                /\ outcome' = "returned"
                /\ pc' = "done"
           ELSE IF ExceptException(err)
           THEN result' = result /\ pc' = "v_retry" /\ UNCHANGED outcome
           ELSE result' = result /\ Escape
    /\ UNCHANGED <<context, context0, op, si, proposals, selected, ret, fallbacks>>
    /\ UNCHANGED <<llm_vars, ctor_vars, arg, db_vars>>

\* Mutant: the retry sends the standard prompt again.
VendorStrictPromptUnchanged(prompt) == prompt

\* strict_prompt = prompt + "\n\nIMPORTANT: ..."
VendorStrictPrompt(prompt) == prompt \o VendorStrictSuffix

\* Lines 142-156: second call, strict prompt, at 0.45.
VendorSecondAttempt(out) ==
    /\ op = "simulate_vendor_response"
    /\ pc = "v_retry"
    /\ calls' = Append(calls,
           Call("vendor", VendorSystemPrompt,
                VendorStrictPrompt(VENDOR_SIMULATION_PROMPT(context, selected["content"])),
                TempVendorRetry))
    /\ raw' = out
    /\ LET err == VendorError(out)
       IN  IF err = "none"
           THEN /\ result' = _parse_vendor_response(out)
                /\ outcome' = "returned"
                /\ pc' = "done"
           ELSE IF ExceptException(err)
           THEN result' = result /\ pc' = "v_fallback" /\ UNCHANGED outcome
           ELSE result' = result /\ Escape
    /\ UNCHANGED <<context, context0, op, si, proposals, selected, first, ret, fallbacks>>
    /\ UNCHANGED <<llm_vars, ctor_vars, arg, db_vars>>

\* Line 157: the second except returns the fallback vendor reply, its
\* concession fraction drawn by random.uniform.
VendorFallback(f) ==
    /\ op = "simulate_vendor_response"
    /\ pc = "v_fallback"
    /\ result' = _get_fallback_vendor_response(context, f)
    /\ fallbacks' = fallbacks \cup {"vendor"}
    /\ outcome' = "returned"
    /\ pc' = "done"
    /\ UNCHANGED <<context, context0, op, si, proposals, selected, first, raw, ret, calls>>
    /\ UNCHANGED <<llm_vars, ctor_vars, arg, db_vars>>

AgentNext ==
    \/ GenerateProposals
    \/ \E out \in ProposalOutcomes : FirstAttempt(out)
    \/ \E out \in ProposalOutcomes : SecondAttempt(out)
    \/ Fallback
    \/ StoreProposal
    \/ ReturnProposals
    \/ \E sel \in SelectedProposals(context) : SimulateVendorResponse(sel)
    \/ \E out \in VendorOutcomes : VendorFirstAttempt(out)
    \/ \E out \in VendorOutcomes : VendorSecondAttempt(out)
    \/ \E f \in Fractions : VendorFallback(f)

Next == AgentNext

Spec == Init /\ [][Next]_vars

\* The calls are synchronous and nothing suspends them: a statement that can
\* run does run (each llm.generate call returns or raises, its retries and
\* timeouts being bounded).
FairSpec == Spec /\ WF_vars(Next)

---------------------------------------------------------------------------
(* The vendor simulation over a wider range of prices *)

\* Price pairs a caller can hold: whole and odd amounts, a target below, at
\* and above the current price.
VendorPastPrices == {500, 999, 1000}
VendorTargetPrices == {400, 800, 1000, 1200}

VendorInit ==
    /\ context \in {FullContext(p, t) : p \in VendorPastPrices, t \in VendorTargetPrices}
    /\ AgentIdle
    /\ Constructed("ollama")
    /\ LLMIdle
    /\ DbIdle

VendorNext ==
    \/ \E sel \in SelectedProposals(context) : SimulateVendorResponse(sel)
    \/ \E out \in VendorOutcomes : VendorFirstAttempt(out)
    \/ \E out \in VendorOutcomes : VendorSecondAttempt(out)
    \/ \E f \in Fractions : VendorFallback(f)

SpecVendor == VendorInit /\ [][VendorNext]_vars

---------------------------------------------------------------------------

(* llm.py: LLMWrapper.generate, one call *)

\* delays = [0.5, 1.0, 2.0]: _with_retry runs fn up to len(delays) + 1 times.
NumDelays == 3
\* @retry(stop=stop_after_attempt(3), ...)
StopAfterAttempt == 3

\* What one provider invocation (requests.post for ollama,
\* chat.completions.create for openai) can do: answer with a text, which is
\* then stripped (possibly to ""), or fail.
ProviderTexts == {"{\"proposal\": \"...\"}", "Sure! Here is the JSON", ""}
ProviderErrors == {"timeout", "connection", "status"}
\* Failures that are not of the transport: a 200 answer whose JSON has no
\* "response" entry (KeyError in _generate_ollama), a completion whose
\* content is None (AttributeError on .strip() in _generate_openai).
ProviderFaults == {"KeyError", "AttributeError"}
ProviderResults == ProviderTexts \cup ProviderErrors \cup ProviderFaults

\* Mutant: after a call that raised, the next call goes to the hosted provider.
GenerateFailingOver ==
    /\ ctor = "constructed"
    /\ g_pc \in {"idle", "returned", "raised"}
    /\ engine' = IF g_pc = "raised" THEN "openai" ELSE engine
    /\ g_pc' = "calling"
    /\ attempt' = 1
    /\ outer_i' = 0
    /\ inner_i' = 0
    /\ provider_calls' = 0
    /\ last_err' = "none"
    /\ g_result' = NoCall
    /\ UNCHANGED <<agent_vars, ctor_vars, arg, db_vars>>

\* generate(...) is entered, for the first time or after an earlier call
\* returned or raised: tenacity's first attempt, both _with_retry loops at
\* 0, nothing kept from the earlier call.
Generate ==
    /\ ctor = "constructed"
    /\ g_pc \in {"idle", "returned", "raised"}
    /\ g_pc' = "calling"
    /\ attempt' = 1
    /\ outer_i' = 0
    /\ inner_i' = 0
    /\ provider_calls' = 0
    /\ last_err' = "none"
    /\ g_result' = NoCall
    /\ UNCHANGED engine
    /\ UNCHANGED <<agent_vars, ctor_vars, arg, db_vars>>

\* One provider invocation and everything the three wrappers do with its
\* result until the next invocation. A text is returned through all of them
\* (generate returns any str as it is). A failure is re-raised as Exception
\* by _generate_ollama/_generate_openai and retried by the innermost loop
\* that has runs left: the method's _with_retry, then generate's
\* _with_retry, then tenacity; when none has, tenacity raises RetryError.
ProviderCall(res) ==
    /\ g_pc = "calling"
    /\ provider_calls' = provider_calls + 1
    /\ IF res \in ProviderTexts
       THEN /\ g_result' = res
            /\ g_pc' = "returned"
            /\ UNCHANGED <<attempt, outer_i, inner_i, last_err>>
       ELSE /\ last_err' = res
            /\ IF inner_i < NumDelays
               THEN /\ inner_i' = inner_i + 1
                    /\ UNCHANGED <<attempt, outer_i, g_pc, g_result>>
               ELSE IF outer_i < NumDelays
               THEN /\ outer_i' = outer_i + 1
                    /\ inner_i' = 0
                    /\ UNCHANGED <<attempt, g_pc, g_result>>
               ELSE IF attempt < StopAfterAttempt
               THEN /\ attempt' = attempt + 1
                    /\ outer_i' = 0
                    /\ inner_i' = 0
                    /\ UNCHANGED <<g_pc, g_result>>
               ELSE /\ g_pc' = "raised"
                    /\ g_result' = Raised
                    /\ UNCHANGED <<attempt, outer_i, inner_i>>
    /\ UNCHANGED engine
    /\ UNCHANGED <<agent_vars, ctor_vars, arg, db_vars>>

AdapterInit ==
    /\ context = FullContext(500, 400)
    /\ AgentIdle
    /\ \E e \in Engines : Constructed(e)
    /\ LLMIdle
    /\ DbIdle

AdapterNext ==
    \/ Generate
    \/ \E res \in ProviderResults : ProviderCall(res)

SpecAdapter == AdapterInit /\ [][AdapterNext]_vars

---------------------------------------------------------------------------
(* agent.py: _get_fallback_proposal called on its own *)

\* Strategy keys a caller can pass: the three known ones and others.
StrategyArgs == {"polite", "firm", "term_swap", "aggressive", "Polite", ""}

\* agent._get_fallback_proposal(s, context): no statement of it can raise
\* for a str key and a dict context.
CallFallbackProposal(s) ==
    /\ op = "idle"
    /\ op' = "_get_fallback_proposal"
    /\ arg' = s
    /\ result' = _get_fallback_proposal(s, context)
    /\ outcome' = "returned"
    /\ pc' = "done"
    /\ UNCHANGED <<context, context0, si, proposals, selected, first, raw, ret, calls,
                   fallbacks>>
    /\ UNCHANGED <<llm_vars, ctor_vars, db_vars>>

\* The same call made a second time, with the same strategy and context;
\* its value is kept next to the first one.
CallFallbackProposalAgain ==
    /\ op = "_get_fallback_proposal"
    /\ pc = "done"
    /\ ret = <<>>
    /\ ret' = _get_fallback_proposal(arg, context)
    /\ UNCHANGED <<context, context0, op, pc, si, proposals, selected, first, raw,
                   calls, fallbacks, result, outcome>>
    /\ UNCHANGED <<llm_vars, ctor_vars, arg, db_vars>>

HelperNext ==
    \/ \E s \in StrategyArgs : CallFallbackProposal(s)
    \/ CallFallbackProposalAgain

SpecHelper == Init /\ [][HelperNext]_vars

---------------------------------------------------------------------------

(* llm.py: construction followed by generate calls *)

\* A process is started in some environment; no adapter exists yet.
CtorInit ==
    /\ context = FullContext(500, 400)
    /\ AgentIdle
    /\ env \in Envs
    /\ ollama_service \in OllamaServices
    /\ openai_installed \in BOOLEAN
    /\ ctor = "none"
    /\ ctor_err = "none"
    /\ engine = Unset
    /\ model = Unset
    /\ ollama_url = Unset
    /\ LLMIdle
    /\ DbIdle

CtorNext ==
    \/ LLMWrapper__init__
    \/ Generate
    \/ \E res \in ProviderResults : ProviderCall(res)

SpecCtor == CtorInit /\ [][CtorNext]_vars

---------------------------------------------------------------------------

(* db.py: the thread store on its own *)

\* An application process with a new database file and no thread saved.
DbInit ==
    /\ context = FullContext(500, 400)
    /\ AgentIdle
    /\ Constructed("ollama")
    /\ LLMIdle
    /\ DbIdle

SpecDb == DbInit /\ [][DbNext]_vars

---------------------------------------------------------------------------

(* agent.py: DebateOrchestrator *)

TempDebate == 70

DebateSystemPrompt ==
    "You are a negotiation strategy orchestrator conducting an expert debate."

\* _format_debate_context: every value is read with .get and a default, so
\* an absent key does not raise. The vendor message is cut at 200 characters;
\* every message of Contexts is shorter, and "N/A" is, so the cut keeps it whole.
_format_debate_context(ctx) ==
    "\n- Service: " \o Get(ctx, "service_type", "Unknown")
    \o "\n- Current Price: $" \o ToString(Get(ctx, "past_price", 0)) \o "/month"
    \o "\n- Target Price: $" \o ToString(Get(ctx, "target_price", 0)) \o "/month"
    \o "\n- Relationship: " \o Get(ctx, "relationship", "Unknown")
    \o "\n- Vendor Message: " \o Get(ctx, "vendor_message", "N/A") \o "...\n"

\* The f-string of lines 252-278, built before the try.
debate_prompt(ctx) ==
    "\nYou are orchestrating a debate between two negotiation experts:\n"
    \o "\nPOLITE AGENT POSITION:"
    \o "\n- Relationship-building leads to long-term success"
    \o "\n- Collaborative language builds trust and goodwill"
    \o "\n- Win-win solutions create lasting partnerships"
    \o "\n- Aggressive tactics can backfire and damage relationships\n"
    \o "\nFIRM AGENT POSITION:"
    \o "\n- Clear boundaries establish respect and credibility"
    \o "\n- Market leverage should be used when available"
    \o "\n- Direct communication saves time and shows confidence"
    \o "\n- Vendors respect customers who know their value\n"
    \o "\nCONTEXT:\n"
    \o _format_debate_context(ctx)
    \o "\n\nHave each agent make their case, then recommend the optimal strategy for this situation.\n"
    \o "\nReturn JSON format:\n{"
    \o "\n    \"polite_argument\": \"Key points for collaborative approach\","
    \o "\n    \"firm_argument\": \"Key points for direct approach\","
    \o "\n    \"recommendation\": \"polite|firm|hybrid\","
    \o "\n    \"reasoning\": \"Why this approach is best for this situation\""
    \o "\n}\n"

\* The dict returned by the except branch, lines 294-299.
DebateFallback ==
    [polite_argument |-> "Building relationships leads to long-term success and repeat business.",
     firm_argument |-> "Clear boundaries establish respect and better outcomes in negotiations.",
     recommendation |-> "polite",
     reasoning |-> "Default to collaborative approach for relationship preservation when debate fails."]

\* schemas.py DebateResult: four fields, recommendation one of three
\* literals. conduct_debate never applies it.
DebateRecommendations == {"polite", "firm", "hybrid"}

DebateResult(o) ==
    /\ {"polite_argument", "firm_argument", "recommendation", "reasoning"} \subseteq DOMAIN o
    /\ o["recommendation"] \in DebateRecommendations

DebateDict(p, f, rec, why) ==
    [polite_argument |-> p, firm_argument |-> f, recommendation |-> rec, reasoning |-> why]

\* A reply whose text is a JSON number.
JsonNumber == [kind |-> "number"]

\* JSON objects the backend may answer a debate prompt with: what the prompt
\* asks for, a recommendation outside the three, a key missing, other keys.
DebateObjects ==
    { DebateDict("Trust pays off.", "Leverage pays off.", "hybrid", "Both have a point."),
      DebateDict("Trust pays off.", "Leverage pays off.", "firm", "The market is on our side."),
      DebateDict("Trust pays off.", "Leverage pays off.", "aggressive", "Push hard."),
      [polite_argument |-> "Trust pays off.", firm_argument |-> "Leverage pays off.",
       recommendation |-> "polite"],
      [winner |-> "firm"] }

DebateReplies == {Text, Array, JsonNumber} \cup {Object(o) : o \in DebateObjects}

\* What llm.generate may do on the debate prompt.
DebateOutcomes == {Raised} \cup DebateReplies

\* Mutant: the decoded value is validated against DebateResult.
DebateErrorValidated(out) ==
    IF out = Raised THEN "Exception"
    ELSE IF out.kind = "text" THEN "JSONDecodeError"
    ELSE IF out.kind # "object" THEN "ValidationError"
    ELSE IF ~DebateResult(out.obj) THEN "ValidationError"
    ELSE "none"

\* The exception the try body of conduct_debate ends with, "none" when it
\* returns: llm.generate raised or json.loads raised. Nothing else is checked.
DebateError(out) ==
    IF out = Raised THEN "Exception"
    ELSE IF out.kind = "text" THEN "JSONDecodeError"
    ELSE "none"

\* json.loads(response) of a reply that is JSON: the mapping of an object;
\* an array or a number stands for its own value.
DebateDecoded(out) == IF out.kind = "object" THEN out.obj ELSE out

\* conduct_debate(context): the prompt, one llm.generate call, and either
\* the decoded value or the fallback dict.
ConductDebate(out) ==
    /\ op = "idle"
    /\ op' = "conduct_debate"
    /\ calls' = Append(calls, Call("debate", DebateSystemPrompt, debate_prompt(context),
                                   TempDebate))
    /\ raw' = out
    /\ pc' = "done"
    /\ LET err == DebateError(out) IN
         IF err = "none"
         THEN /\ result' = DebateDecoded(out)
              /\ outcome' = "returned"
         ELSE IF ExceptException(err)
         THEN /\ result' = DebateFallback
              /\ outcome' = "returned"
         ELSE /\ outcome' = "raised"
              /\ UNCHANGED result
    /\ UNCHANGED <<context, context0, si, proposals, selected, first, ret, fallbacks>>
    /\ UNCHANGED <<llm_vars, ctor_vars, arg, db_vars>>

DebateNext == \E out \in DebateOutcomes : ConductDebate(out)

SpecDebate == Init /\ [][DebateNext]_vars

---------------------------------------------------------------------------

(* Properties *)

\* The llm.generate calls made so far for an item (a strategy, or "vendor").
CallsFor(item) == Cardinality({i \in 1..Len(calls) : calls[i].item = item})

GeneratingProposals == op = "generate_proposals"
Simulating == op = "simulate_vendor_response"
\* _generate_single_proposal has a value to return for the current strategy.
ItemReturned == GeneratingProposals /\ pc = "store"

\* C1: for a context holding all five fields, whatever the backend did on
\* each call, generate_proposals ends by returning a mapping whose key set
\* is exactly {polite, firm, term_swap}.
C1_ExactlyThreeStrategies ==
    (GeneratingProposals /\ pc = "done" /\ Complete(context0))
        => /\ outcome = "returned"
           /\ DOMAIN result = {"polite", "firm", "term_swap"}

\* C1 witness: a returned batch in which "polite" came from the backend and
\* "firm" from the fallback.
C1_Witness ==
    /\ GeneratingProposals
    /\ outcome = "returned"
    /\ "firm" \in fallbacks
    /\ "polite" \notin fallbacks

\* C2: with a complete context, no exception leaves generate_proposals or
\* simulate_vendor_response, whatever the backend does on each call.
C2_NoExceptionEscapes == Complete(context0) => outcome # "raised"

\* C2 witness: the backend raised on both calls of the last strategy and
\* the strategy still has a value to return.
C2_Witness ==
    /\ ItemReturned
    /\ si = Len(strategies)
    /\ first = Raised
    /\ raw = Raised

\* C3 (as claimed): a reply that is a JSON object with exactly the keys
\* proposal, reasoning, expected_outcome, each within its bounds, is
\* accepted on the first attempt: its fields are the strategy's Proposal and
\* there is no second call.
C3_ContractReplyAccepted ==
    (GeneratingProposals /\ ContractReply(first))
        => /\ pc = "store"
           /\ CallsFor(strategy) = 1
           /\ ret = [content |-> first.obj["proposal"],
                     reasoning |-> first.obj["reasoning"],
                     expected_outcome |-> first.obj["expected_outcome"]]

\* The three fields of a reply within the bounds of the structured-text
\* contract (other keys may be present).
FieldsInBounds(r) ==
    /\ r.kind = "object"
    /\ StrField(r.obj, "proposal", 10, 1200)
    /\ StrField(r.obj, "reasoning", 5, 600)
    /\ StrField(r.obj, "expected_outcome", 3, 300)

\* C4 (as claimed): malformed text on the first call and valid structured
\* text on the second give the Proposal the second text decodes to, and the
\* fallback is not invoked for that strategy.
C4_RetryThenSucceed ==
    (GeneratingProposals /\ CallsFor(strategy) = 2
        /\ Malformed(first) /\ FieldsInBounds(raw))
        => /\ pc = "store"
           /\ strategy \notin fallbacks
           /\ ret = [content |-> raw.obj["proposal"],
                     reasoning |-> raw.obj["reasoning"],
                     expected_outcome |-> raw.obj["expected_outcome"]]

\* C5: malformed text on both calls gives exactly the fallback for that
\* strategy and context: the strategy's own four fragments around the
\* context's target price.
C5_RetryThenFallback ==
    (ItemReturned /\ Malformed(first) /\ Malformed(raw))
        => /\ strategy \in fallbacks
           /\ ret = [content |->
                        FALLBACK_TEMPLATES[strategy]["opening"] \o ". "
                        \o FALLBACK_TEMPLATES[strategy]["transition"] \o ", "
                        \o FALLBACK_TEMPLATES[strategy]["ask"] \o " around $"
                        \o ToString(context0["target_price"]) \o "/month. "
                        \o FALLBACK_TEMPLATES[strategy]["closing"] \o ".",
                     reasoning |-> "Using " \o strategy
                        \o " approach with fallback template due to LLM error.",
                     expected_outcome |-> "Vendor is likely to be receptive to a discussion."]

\* C5 witness: "firm" has its value after two malformed replies.
C5_Witness ==
    /\ ItemReturned
    /\ strategy = "firm"
    /\ Malformed(first)
    /\ Malformed(raw)

InRange(n, lo, hi) == lo <= n /\ n <= hi

\* C6: every entry generate_proposals returns has content of 10..1200,
\* reasoning of 5..600 and expected_outcome of 3..300 characters, on every
\* path.
C6_EntriesWellFormed ==
    (GeneratingProposals /\ outcome = "returned")
        => \A s \in DOMAIN result :
              /\ InRange(Len(result[s]["content"]), 10, 1200)
              /\ InRange(Len(result[s]["reasoning"]), 5, 600)
              /\ InRange(Len(result[s]["expected_outcome"]), 3, 300)

\* C6 witness: a returned batch made on all three paths: "polite" at the
\* first attempt, "firm" at the retry, "term_swap" by the fallback, with a
\* backend entry at the 1200-character ceiling.
C6_Witness ==
    /\ GeneratingProposals
    /\ outcome = "returned"
    /\ CallsFor("polite") = 1
    /\ CallsFor("firm") = 2
    /\ fallbacks = {"term_swap"}
    /\ Len(result["firm"]["content"]) = 1200

\* C7 (as claimed): every entry generate_proposals returns validates against
\* NegotiationProposal, and what simulate_vendor_response returns validates
\* against VendorResponse.
C7_ResultsValidate ==
    (outcome = "returned")
        => IF GeneratingProposals
           THEN \A s \in DOMAIN result : NegotiationProposal(result[s])
           ELSE VendorResponse(result)

HasProposalOfLen(r, n) ==
    /\ r.kind = "object"
    /\ "proposal" \in DOMAIN r.obj
    /\ Len(r.obj["proposal"]) = n

\* C8: a structured first reply whose proposal has 9 characters fails
\* validation and moves the strategy to the retry: a second call is made,
\* and the 9-character text is never the strategy's Proposal.
C8_Length9Rejected ==
    (GeneratingProposals /\ HasProposalOfLen(first, 9))
        => /\ pc \in {"retry", "fallback", "store"}
           /\ pc = "retry" => CallsFor(strategy) = 1
           /\ pc \in {"fallback", "store"} =>
                 /\ CallsFor(strategy) = 2
                 /\ calls[Len(calls)].temperature = 60
           /\ pc = "store" => Len(ret["content"]) # 9

\* C8 witness: the retry's call was made after a first reply that is valid
\* but for its 9-character proposal.
C8_Witness ==
    /\ GeneratingProposals
    /\ first = Object(FourKeys("polite", Rep("p", 9), R5, E3))
    /\ CallsFor(strategy) = 2

\* The try body of a vendor attempt ended with an exception.
VendorAttemptFailed(out) == out = Raised \/ ~ParsesVendor(out)

\* C9: with a complete context, simulate_vendor_response makes its first
\* call at 0.5 with the standard prompt; after a failed first attempt
\* exactly one second call, at 0.45 with the strict prompt; the fallback
\* reply only after two failed attempts; and it ends returning one reply
\* with the fields content, accepted_price, reasoning, success.
C9_VendorMachine ==
    (Simulating /\ Complete(context0))
        => /\ Len(calls) <= 2
           /\ pc # "v_first" =>
                 /\ Len(calls) >= 1
                 /\ calls[1].temperature = 50
                 /\ calls[1].user_prompt =
                        VENDOR_SIMULATION_PROMPT(context0, selected["content"])
           /\ Len(calls) = 2 =>
                 /\ VendorAttemptFailed(first)
                 /\ calls[2].temperature = 45
                 /\ calls[2].user_prompt = calls[1].user_prompt \o VendorStrictSuffix
           /\ (pc \in {"v_fallback", "done"} /\ VendorAttemptFailed(first)) =>
                 Len(calls) = 2
           /\ (pc = "v_fallback" \/ "vendor" \in fallbacks) =>
                 /\ VendorAttemptFailed(first)
                 /\ VendorAttemptFailed(raw)
           /\ pc = "done" =>
                 /\ outcome = "returned"
                 /\ DOMAIN result = {"content", "accepted_price", "reasoning", "success"}
                 /\ (VendorAttemptFailed(first) /\ VendorAttemptFailed(raw))
                        => "vendor" \in fallbacks

\* C9 witness: the fallback vendor reply was returned after two calls.
C9_Witness ==
    /\ Simulating
    /\ pc = "done"
    /\ outcome = "returned"
    /\ "vendor" \in fallbacks
    /\ Len(calls) = 2

\* C10 (as claimed): one call of LLMWrapper.generate invokes the provider at
\* most 3 times before it returns or raises.
C10_AtMostThreeProviderCalls == provider_calls <= 3

\* C11 (as claimed): when the context lacks one of the five keys, the
\* missing key fails the attempt inside the per-item machine (retry, then
\* fallback) and no exception leaves generate_proposals or
\* simulate_vendor_response.
C11_MissingKeyContained ==
    (~Complete(context0) /\ op # "idle")
        => /\ outcome # "raised"
           /\ pc = "done" => fallbacks # {}

\* The fallback vendor reply was returned.
FallbackReplyReturned == Simulating /\ pc = "done" /\ "vendor" \in fallbacks

\* accepted_price of the returned reply, in cents.
AcceptedOf(r) == r["accepted_price"].cents

\* C12 (as claimed): the fallback vendor reply for a concession fraction f
\* has accepted_price = past_price - f * (past_price - target_price)
\* (both sides in thousandths of a dollar).
C12_ExactConcession ==
    [][\A f \in Fractions :
          VendorFallback(f) =>
             AcceptedOf(result') * 10 =
                context["past_price"] * 1000
                - f * (context["past_price"] - context["target_price"])]_vars

\* C12 (amended): the fallback vendor reply for a concession fraction f has
\* accepted_price = past_price - f * (past_price - target_price) rounded to
\* two decimals (within half a cent of the exact value); with past_price
\* 1000 and target_price 800 it lies in [800, 950] and success is true.
C12_RoundedConcession ==
    [][\A f \in Fractions :
          VendorFallback(f) =>
             LET past == context["past_price"]
                 target == context["target_price"]
                 exact == past * 1000 - f * (past - target)
                 got == AcceptedOf(result') * 10
             IN  /\ got - exact <= 5
                 /\ exact - got <= 5
                 /\ (past = 1000 /\ target = 800) =>
                       /\ 80000 <= AcceptedOf(result')
                       /\ AcceptedOf(result') <= 95000
                       /\ result'["success"] = (AcceptedOf(result') < 100000)
                       /\ result'["success"]]_vars

\* C12 witness: the fallback reply for 1000/800 with the largest concession
\* allowed (0.75), 850.00.
C12_Witness ==
    /\ FallbackReplyReturned
    /\ context0["past_price"] = 1000
    /\ context0["target_price"] = 800
    /\ AcceptedOf(result) = 85000

\* C13: in the fallback vendor reply success is true exactly when
\* accepted_price < past_price; so a successful fallback reply has
\* accepted_price <= past_price, and with target_price >= past_price the
\* reply has success false and accepted_price >= past_price.
C13_SuccessIffBelowPast ==
    FallbackReplyReturned =>
        LET past == context0["past_price"]
            target == context0["target_price"]
        IN  /\ result["success"] <=> (AcceptedOf(result) < past * 100)
            /\ result["success"] => AcceptedOf(result) <= past * 100
            /\ target >= past =>
                  /\ ~result["success"]
                  /\ AcceptedOf(result) >= past * 100

\* C13 witness: a fallback reply for a target equal to the current price:
\* the price is unchanged and success is false.
C13_Witness ==
    /\ FallbackReplyReturned
    /\ context0["target_price"] = context0["past_price"]
    /\ AcceptedOf(result) = context0["past_price"] * 100
    /\ ~result["success"]

\* C14 (as claimed): LLMWrapper.generate returns a non-empty string or
\* raises; it never returns the empty string.
C14_NeverReturnsEmpty == g_pc = "returned" => g_result # ""

\* The engine selector is absent, or holds a value other than the two
\* providers.
SelectorAbsent == "ENGINE" \notin DOMAIN env
SelectorInvalid == "ENGINE" \in DOMAIN env /\ Lower(env["ENGINE"]) \notin Engines

\* C15 (as claimed): constructing the adapter fails, and produces no
\* instance, both when the engine selector is absent and when it holds a
\* value other than the two providers.
C15_AbsentOrInvalidFails ==
    (ctor # "none" /\ (SelectorAbsent \/ SelectorInvalid)) => ctor = "raised"

\* C15 (amended): constructing the adapter fails with ValueError, and
\* produces no instance, when the engine selector holds a value other than
\* the two providers (in any letter case); when the selector is absent the
\* local provider "ollama" is taken, and the adapter is constructed exactly
\* when its connection check passes.
C15_InvalidFailsAbsentDefaults ==
    ctor # "none" =>
        /\ SelectorInvalid => (ctor = "raised" /\ ctor_err = "ValueError")
        /\ ~SelectorInvalid => ctor_err # "ValueError"
        /\ SelectorAbsent =>
              /\ engine = "ollama"
              /\ (ctor = "constructed") <=>
                    /\ ollama_service.kind = "tags"
                    /\ Get(env, "OLLAMA_MODEL", "llama3.1:8b") \in ollama_service.models

\* C15 witness: the constructor raised for ENGINE=gemini.
C15_Witness ==
    /\ "ENGINE" \in DOMAIN env
    /\ env["ENGINE"] = "gemini"
    /\ ctor = "raised"
    /\ ctor_err = "ValueError"

\* C16: the fallback proposal for a strategy key outside {polite, firm,
\* term_swap} is returned without raising, its content the polite
\* template's four fragments around the target price.
C16_UnknownStrategyIsPolite ==
    (op = "_get_fallback_proposal" /\ arg \notin {"polite", "firm", "term_swap"})
        => /\ outcome = "returned"
           /\ result["content"] =
                 FALLBACK_TEMPLATES["polite"]["opening"] \o ". "
                 \o FALLBACK_TEMPLATES["polite"]["transition"] \o ", "
                 \o FALLBACK_TEMPLATES["polite"]["ask"] \o " around $"
                 \o TargetPriceText(context0)
                 \o "/month. " \o FALLBACK_TEMPLATES["polite"]["closing"] \o "."

\* C16 witness: the fallback proposal for the key "aggressive" was returned.
C16_Witness ==
    /\ op = "_get_fallback_proposal"
    /\ arg = "aggressive"
    /\ outcome = "returned"
    /\ "content" \in DOMAIN result

\* The positions in the log of the saves made under a thread id.
SavesOf(id) == {i \in 1..Len(saves) : saves[i].thread_id = id}

\* The context most recently saved under a thread id that has been saved.
LastSaved(id) ==
    saves[CHOOSE i \in SavesOf(id) : \A j \in SavesOf(id) : j <= i].context

\* C17: after any sequence of save_negotiation_thread calls,
\* get_negotiation_thread(t) returns the thread whose context is the one
\* most recently saved under t, whatever was saved under other ids, and
\* None for an id never saved.
C17_ThreadRoundTrip ==
    [][\A id \in ThreadIds :
          get_negotiation_thread(id) =>
             IF SavesOf(id) = {}
             THEN db_ret'.value = None
             ELSE /\ db_ret'.value.kind = "value"
                  /\ db_ret'.value.value.thread_id = id
                  /\ db_ret'.value.value.context = LastSaved(id)]_vars

\* C17 witness: a thread saved twice, then the other thread saved, and a
\* get of the first returned the context of its second save.
C17_Witness ==
    /\ Len(saves) = 3
    /\ saves[1].thread_id = "18c2a"
    /\ saves[2].thread_id = "18c2a"
    /\ saves[3].thread_id = "18c2b"
    /\ saves[1].context # saves[2].context
    /\ saves[3].context # saves[2].context
    /\ db_ret # <<>>
    /\ db_ret.thread_id = "18c2a"
    /\ db_ret.value.kind = "value"
    /\ db_ret.value.value.context = saves[2].context
    /\ db_ret.value.value.context.t = "dict"

ProposalAttemptFailed(out) == out = Raised \/ ~ParsesProposal(out)

\* The call at position i is the first made for its strategy.
FirstCallOfItem(i) == i = 1 \/ calls[i - 1].item # calls[i].item

\* C19: per strategy at most two backend calls are made: the first with the
\* standard prompt at 0.65; a second only after the first attempt failed,
\* with the standard prompt plus the key-enumerating instruction, at 0.60;
\* the strict prompt is never sent first; the fallback is produced only
\* after both attempts failed.
C19_TwoCallsInOrder ==
    GeneratingProposals =>
        /\ \A s \in {"polite", "firm", "term_swap"} : CallsFor(s) <= 2
        /\ \A i \in 1..Len(calls) :
              IF FirstCallOfItem(i)
              THEN /\ calls[i].temperature = 65
                   /\ calls[i].user_prompt =
                          PROPOSAL_PROMPT(_format_context(context0), calls[i].item)
              ELSE /\ calls[i].temperature = 60
                   /\ calls[i].user_prompt =
                          calls[i - 1].user_prompt \o ProposalStrictSuffix
        /\ (pc \in {"retry", "fallback", "store"} /\ CallsFor(strategy) = 2)
              => ProposalAttemptFailed(first)
        /\ (pc = "retry" \/ (pc = "store" /\ ProposalAttemptFailed(first)))
              => CallsFor(strategy) >= 1
        /\ (pc = "fallback" \/ (pc = "store" /\ strategy \in fallbacks))
              => /\ CallsFor(strategy) = 2
                 /\ ProposalAttemptFailed(first)
                 /\ ProposalAttemptFailed(raw)
        /\ \A s \in fallbacks : CallsFor(s) = 2

\* C19 witness: "polite" took one call, "firm" two calls and the fallback.
C19_Witness ==
    /\ GeneratingProposals
    /\ CallsFor("polite") = 1
    /\ CallsFor("firm") = 2
    /\ "firm" \in fallbacks
    /\ pc = "store"

\* C20: an exception of the backend on a strategy's first attempt leads to
\* the retry: a second call is made, the strategy neither goes straight to
\* the fallback nor ends the batch; an exception on the second attempt
\* leads to the fallback, whose value the strategy then returns.
C20_BackendExceptionRetries ==
    (GeneratingProposals /\ first = Raised)
        => /\ outcome = "running"
           /\ pc \in {"retry", "fallback", "store"}
           /\ pc = "retry" => CallsFor(strategy) = 1
           /\ pc \in {"fallback", "store"} =>
                 /\ CallsFor(strategy) = 2
                 /\ calls[Len(calls)].temperature = 60
           /\ (CallsFor(strategy) = 2 /\ raw = Raised) =>
                 \/ pc = "fallback"
                 \/ /\ pc = "store"
                    /\ strategy \in fallbacks
                    /\ ret = _get_fallback_proposal(strategy, context0)

\* C20 witness: after "polite" fell back, "firm" met an exception on its
\* first call and a reply on its second, and has its value.
C20_Witness ==
    /\ GeneratingProposals
    /\ "polite" \in fallbacks
    /\ strategy = "firm"
    /\ first = Raised
    /\ raw # Raised
    /\ pc = "store"
    /\ "firm" \notin fallbacks

\* The llm.generate calls in a log made for an item.
CallsIn(log, item) == Cardinality({i \in 1..Len(log) : log[i].item = item})

\* The value and the path of the current strategy follow from the outcomes
\* of its own attempts and the context.
OwnOutcomesDecide ==
    IF ParsesProposal(first)
    THEN /\ ret = _parse_proposal(first)
         /\ CallsFor(strategy) = 1
         /\ strategy \notin fallbacks
    ELSE IF ParsesProposal(raw)
    THEN /\ ret = _parse_proposal(raw)
         /\ CallsFor(strategy) = 2
         /\ strategy \notin fallbacks
    ELSE /\ ret = _get_fallback_proposal(strategy, context0)
         /\ CallsFor(strategy) = 2
         /\ strategy \in fallbacks

\* C21: the three strategies are independent. Whatever happened to the
\* strategies before it, a strategy's Proposal and path (first try, retry,
\* fallback) are decided by the outcomes of its own attempts and the
\* context; and no step taken for one strategy changes the Proposal stored
\* for another, its number of attempts or whether it fell back.
C21_StrategiesIndependent ==
    [][GeneratingProposals' =>
          /\ (pc' = "store") => OwnOutcomesDecide'
          /\ \A s \in DOMAIN proposals :
                /\ s \in DOMAIN proposals'
                /\ proposals'[s] = proposals[s]
          /\ \A s \in {"polite", "firm", "term_swap"} :
                (si' >= 1 /\ s # strategies[si']) =>
                    /\ CallsIn(calls', s) = CallsIn(calls, s)
                    /\ (s \in fallbacks') <=> (s \in fallbacks)
          /\ pc' = "done" /\ outcome' = "returned" => result' = proposals]_vars

\* C21 witness: "polite" fell back, "firm" was accepted at its first
\* attempt, and "term_swap" has its value after a retry.
C21_Witness ==
    /\ GeneratingProposals
    /\ fallbacks = {"polite"}
    /\ CallsFor("firm") = 1
    /\ strategy = "term_swap"
    /\ pc = "store"
    /\ CallsFor("term_swap") = 2
    /\ ParsesProposal(raw)

\* C22 (as claimed): the adapter retries only failures of the transport: a
\* text the provider returned is handed to the caller as it is with no
\* further provider call, and after a failure that is not of the transport
\* no further provider call is made.
C22_OnlyTransportRetried ==
    /\ g_pc = "returned" => g_result \in ProviderTexts
    /\ g_pc = "calling" => last_err \notin ProviderFaults

\* C23: for a context holding all five fields and every backend behaviour,
\* a backend that fails on every call included, an entry point once called
\* returns: generate_proposals after at most 6 backend calls (2 for each
\* strategy), simulate_vendor_response after at most 2.
C23_Terminates ==
    /\ [](GeneratingProposals =>
             \A s \in {"polite", "firm", "term_swap"} : CallsFor(s) <= 2)
    /\ [](Simulating => Len(calls) <= 2)
    /\ (op # "idle" /\ Complete(context0)) ~> (pc = "done" /\ outcome = "returned")

\* C23 witness: the backend failed on all six calls and the batch was
\* returned, every entry from the fallback.
C23_Witness ==
    /\ GeneratingProposals
    /\ pc = "done"
    /\ outcome = "returned"
    /\ Len(calls) = 6
    /\ fallbacks = {"polite", "firm", "term_swap"}

\* The place of a strategy in the order polite, firm, term_swap.
OrderOf(s) == CASE s = "polite" -> 1 [] s = "firm" -> 2 [] s = "term_swap" -> 3

\* C24: the strategies are generated one after the other in the order
\* polite, firm, term_swap: the backend calls of a strategy are all made,
\* and its value stored, before the first call of the next, so that the
\* calls of one strategy are never interleaved with those of another, and a
\* returned batch took between 3 and 6 backend calls.
C24_StrictlySequential ==
    GeneratingProposals =>
        /\ \A i \in 1..Len(calls) : \A j \in 1..Len(calls) :
              i < j => OrderOf(calls[i].item) <= OrderOf(calls[j].item)
        /\ \A s \in {"polite", "firm", "term_swap"} :
              /\ (si >= 1 /\ OrderOf(s) < si) =>
                    /\ CallsFor(s) \in {1, 2}
                    /\ s \in DOMAIN proposals
              /\ (si >= 1 /\ OrderOf(s) > si) =>
                    /\ CallsFor(s) = 0
                    /\ s \notin DOMAIN proposals
                    /\ s \notin fallbacks
              /\ (si >= 1 /\ OrderOf(s) = si /\ pc \in {"first", "retry", "fallback", "store"})
                    => s \notin DOMAIN proposals
        /\ outcome = "returned" => (3 <= Len(calls) /\ Len(calls) <= 6)

\* C24 witness: a returned batch that took four calls: one for "polite",
\* two for "firm", one for "term_swap", in this order.
C24_Witness ==
    /\ GeneratingProposals
    /\ outcome = "returned"
    /\ Len(calls) = 4
    /\ calls[1].item = "polite"
    /\ calls[2].item = "firm"
    /\ calls[3].item = "firm"
    /\ calls[4].item = "term_swap"

\* A vendor reply within the per-field constraints that reports success at
\* a price above the context's past_price.
SuccessAbovePast(r) ==
    /\ r.kind = "object"
    /\ StrField(r.obj, "response", 5, 1200)
    /\ StrField(r.obj, "reasoning", 5, 600)
    /\ "success" \in DOMAIN r.obj
    /\ r.obj["success"] = TRUE
    /\ "accepted_price" \in DOMAIN r.obj
    /\ IsNum(r.obj["accepted_price"])
    /\ r.obj["accepted_price"].cents > context0["past_price"] * 100

\* C25: vendor-reply validation does not compare the price with success: a
\* first reply within the per-field constraints with success true and
\* accepted_price above past_price is returned with its values as they are,
\* with no second call and no fallback.
C25_NoPriceCrossCheck ==
    (Simulating /\ SuccessAbovePast(first))
        => /\ pc = "done"
           /\ outcome = "returned"
           /\ Len(calls) = 1
           /\ "vendor" \notin fallbacks
           /\ result = [content |-> first.obj["response"],
                        accepted_price |-> first.obj["accepted_price"],
                        reasoning |-> first.obj["reasoning"],
                        success |-> TRUE]

\* C25 witness: a reply accepting $2000.00 with success true was returned
\* for a past_price of 1000.
C25_Witness ==
    /\ Simulating
    /\ outcome = "returned"
    /\ context0["past_price"] = 1000
    /\ result["success"] = TRUE
    /\ result["accepted_price"] = Num(200000)

\* C26: the context passed to generate_proposals or
\* simulate_vendor_response is never changed: during and after the call,
\* on every path, it holds the keys and values the caller built.
C26_ContextNotMutated ==
    (GeneratingProposals \/ Simulating) => context = context0

\* C26 witness: generate_proposals returned after a first-try success, a
\* retry success and a fallback, for the context with prices 1000 and 800.
C26_Witness ==
    /\ GeneratingProposals
    /\ outcome = "returned"
    /\ context = FullContext(1000, 800)
    /\ fallbacks = {"polite"}
    /\ CallsFor("firm") = 2
    /\ CallsFor("term_swap") = 1

\* C27: the engine is chosen when the adapter is constructed and fixed from
\* then on: no step of any generate call, returning, failing or retrying,
\* and no later generate call changes the adapter's engine, model or
\* endpoint.
C27_EngineFixed ==
    [][ctor = "constructed" =>
          /\ ctor' = "constructed"
          /\ engine' = engine
          /\ model' = model
          /\ ollama_url' = ollama_url]_vars

\* C27 witness: a generate call is in tenacity's second attempt on the
\* hosted engine, with the model the environment named, after provider
\* invocations that timed out.
C27_Witness ==
    /\ ctor = "constructed"
    /\ engine = "openai"
    /\ model = "gpt-4o"
    /\ g_pc = "calling"
    /\ attempt = 2
    /\ last_err = "timeout"

\* The model the local engine is configured with.
ConfiguredOllamaModel == Get(env, "OLLAMA_MODEL", "llama3.1:8b")

\* C28: constructing the local engine tests the service and fails, with no
\* instance, exactly when the service is unreachable, answers with a status
\* other than 200, or does not list the configured model; constructing the
\* hosted engine tests nothing and succeeds whenever the client library is
\* there, whatever the state of any service.
C28_LocalChecksHostedDefers ==
    ctor # "none" =>
        /\ engine = "ollama" =>
              /\ (ctor = "raised") <=>
                    \/ ollama_service = Unreachable
                    \/ ollama_service = BadStatus
                    \/ /\ ollama_service.kind = "tags"
                       /\ ConfiguredOllamaModel \notin ollama_service.models
              /\ ctor = "raised" => ctor_err = "Exception"
              /\ ctor = "constructed" => model = ConfiguredOllamaModel
        /\ engine = "openai" =>
              /\ (ctor = "constructed") <=> openai_installed
              /\ ctor = "constructed" => ctor_err = "none"

\* C28 witness: the hosted engine was constructed while no service could
\* be reached, and the first generate call is the one that met the
\* connection failure.
C28_Witness ==
    /\ engine = "openai"
    /\ ctor = "constructed"
    /\ ollama_service = Unreachable
    /\ g_pc = "calling"
    /\ provider_calls = 1
    /\ last_err = "connection"

SavedIds == {saves[i].thread_id : i \in 1..Len(saves)}

\* The table holds one row for each thread id saved, all of them active.
OneRowPerSavedId ==
    /\ \A id \in ThreadIds :
          Cardinality({r \in threads : r.thread_id = id}) =
              (IF id \in SavedIds THEN 1 ELSE 0)
    /\ \A r \in threads : r.status = "active"

\* A listing names each thread id saved once, with status 'active'.
ListsEachOnce(listing) ==
    /\ Len(listing) = Cardinality(SavedIds)
    /\ \A id \in SavedIds :
          Cardinality({i \in 1..Len(listing) : listing[i].thread_id = id}) = 1
    /\ \A i \in 1..Len(listing) : listing[i].status = "active"

\* C30: after any sequence of save_negotiation_thread calls the table
\* holds exactly one row per thread id ever saved (a save under an id that
\* has a row replaces that row), and get_all_negotiation_threads lists each
\* of them exactly once, with status 'active'.
C30_OneRecordPerThread ==
    [][/\ OneRowPerSavedId'
       /\ get_all_negotiation_threads =>
             /\ db_list'.kind = "value"
             /\ ListsEachOnce(db_list.value)']_vars

\* C30 witness: three saves, two of them under the same id, and a listing
\* of two threads.
C30_Witness ==
    /\ Len(saves) = 3
    /\ Cardinality(SavedIds) = 2
    /\ Cardinality(threads) = 2
    /\ db_list # None
    /\ Len(db_list.value) = 2


\* conduct_debate has been called and has ended.
DebateDone == op = "conduct_debate" /\ pc = "done"

\* C31: conduct_debate makes exactly one llm.generate call and never a second
\* one. When that call raises, or returns text that is not JSON, the fixed
\* fallback dict (recommendation "polite") is returned and no exception leaves
\* conduct_debate. When the text is JSON, the decoded value is returned as it
\* is, whether or not it has the shape of a DebateResult.
C31_DebateOneCallThenFallbackOrAsIs ==
    DebateDone =>
        /\ Len(calls) = 1
        /\ calls[1].system_prompt = DebateSystemPrompt
        /\ calls[1].temperature = TempDebate
        /\ outcome = "returned"
        /\ (raw = Raised \/ raw.kind = "text") =>
               /\ result = DebateFallback
               /\ result["recommendation"] = "polite"
        /\ raw.kind = "object" => result = raw.obj
        /\ raw.kind \in {"array", "number"} => result = raw

\* Witness: a JSON object that DebateResult would reject was returned as it is.
C31_Witness_UncheckedObjectReturned ==
    /\ DebateDone
    /\ outcome = "returned"
    /\ raw.kind = "object"
    /\ ~DebateResult(raw.obj)
    /\ result = raw.obj
    /\ Len(calls) = 1

=============================================================================
